---------------------------- MODULE Spec2Model ----------------------------
(***************************************************************************)
(* A model of the SailPoint Terraform provider: the provider server's      *)
(* registration of its data sources, the validation and configuration of   *)
(* the provider block (internal/provider/provider.go), and the Read        *)
(* handlers of the two Managed Cluster data sources.                       *)
(***************************************************************************)
EXTENDS Integers, Sequences, FiniteSets, TLC

VARIABLES
    version,         \* sailpointProvider.version, set by New(version)
    env,             \* the process environment read by os.Getenv
    pc,              \* the provider's position: "new", "serving", "rejected", "configured"
    typeName,        \* provider.MetadataResponse.TypeName
    dataSources,     \* the type names of the constructors DataSources() returns, in order
    resources,       \* the type names of the constructors Resources() returns
    validated,       \* verdict of ValidateProviderConfig on the provider block
    config,          \* sailpointProviderModel read by req.Config.Get
    effective,       \* Configure's locals baseUrl, clientID, clientSecret, experimental
    diags,           \* provider.ConfigureResponse.Diagnostics
    DataSourceData,  \* provider.ConfigureResponse.DataSourceData
    ResourceData,    \* provider.ConfigureResponse.ResourceData
    clustersClient,  \* managedClustersDataSource.client
    clusterClient,   \* managedClusterDataSource.client
    read             \* the request, the HTTP exchange and the response of the last Read

vars == <<version, env, pc, typeName, dataSources, resources, validated, config,
          effective, diags, DataSourceData, ResourceData, clustersClient,
          clusterClient, read>>

provVars == <<version, env, pc, typeName, dataSources, resources, validated, config,
              effective, diags, DataSourceData, ResourceData>>

(***************************************************************************)
(* terraform-plugin-framework values: types.String and types.Bool are      *)
(* null, unknown or known; ValueString and ValueBool give the zero value   *)
(* of a null or unknown value.                                             *)
(***************************************************************************)
StringNull == [k |-> "null", v |-> ""]

StringUnknown == [k |-> "unknown", v |-> ""]

StringValue(s) == [k |-> "known", v |-> s]

BoolNull == [k |-> "null", v |-> FALSE]

BoolUnknown == [k |-> "unknown", v |-> FALSE]

BoolValue(b) == [k |-> "known", v |-> b]

IsNull(t) == t.k = "null"

IsUnknown(t) == t.k = "unknown"

ValueString(t) == IF t.k = "known" THEN t.v ELSE ""

ValueBool(t) == IF t.k = "known" THEN t.v ELSE FALSE

(***************************************************************************)
(* The inputs: provider versions, environments and provider blocks.        *)
(***************************************************************************)
Versions == {"dev", "test"}

Environments ==
    [SAIL_BASE_URL : {"", "https://env.api"},
     SAIL_CLIENT_ID : {"", "env-id"},
     SAIL_CLIENT_SECRET : {"", "env-secret"},
     SAIL_EXPERIMENTAL : {"", "true", "1"}]

Getenv(name) == env[name]

ProviderConfigs ==
    [BaseUrl : {StringNull, StringUnknown, StringValue(""), StringValue("https://cfg.api")},
     ClientID : {StringNull, StringUnknown, StringValue(""), StringValue("cfg-id")},
     ClientSecret : {StringNull, StringUnknown, StringValue(""), StringValue("cfg-secret")},
     Experimental : {BoolNull, BoolUnknown, BoolValue(FALSE), BoolValue(TRUE)}]

NoConfig ==
    [BaseUrl |-> StringNull, ClientID |-> StringNull, ClientSecret |-> StringNull,
     Experimental |-> BoolNull]

(***************************************************************************)
(* Diagnostics.                                                            *)
(***************************************************************************)
AttributeError(attr, summary) == [severity |-> "error", path |-> attr, summary |-> summary]

AddError(summary, detail) == [severity |-> "error", path |-> detail, summary |-> summary]

HasError(ds) == \E i \in 1..Len(ds) : ds[i].severity = "error"

(***************************************************************************)
(* The API client built by sailpoint.NewAPIClient; ptr 0 is the nil        *)
(* pointer, ptr 1 the instance Configure allocates.                        *)
(***************************************************************************)
NilClient ==
    [ptr |-> 0, BaseURL |-> "", ClientId |-> "", ClientSecret |-> "", TokenURL |-> "",
     Experimental |-> FALSE]

NoEffective ==
    [set |-> FALSE, baseUrl |-> "", clientID |-> "", clientSecret |-> "",
     experimental |-> FALSE]

(***************************************************************************)
(* sailpointProvider.Metadata, DataSources and Resources, and the Metadata *)
(* of the two data sources.                                                *)
(***************************************************************************)
ProviderTypeName == "sailpoint"

ManagedClustersTypeName(providerTypeName) == providerTypeName \o "_managed_clusters"

ManagedClusterTypeName(providerTypeName) == providerTypeName \o "_managed_cluster"

DataSourcesOneOnly == <<"NewManagedClustersDataSource">>

DataSources == <<"NewManagedClustersDataSource", "NewManagedClusterDataSource">>

Resources == << >>

DataSourceMetadata(constructor, providerTypeName) ==
    IF constructor = "NewManagedClustersDataSource"
    THEN ManagedClustersTypeName(providerTypeName)
    ELSE ManagedClusterTypeName(providerTypeName)

(***************************************************************************)
(* sailpointProvider.Schema: the attributes marked Required.  The          *)
(* framework's ValidateProviderConfig reports a null value of a Required   *)
(* attribute as an error, and Terraform then never configures the          *)
(* provider.                                                               *)
(***************************************************************************)
SchemaRequired ==
    [BaseUrl |-> TRUE, ClientID |-> TRUE, ClientSecret |-> TRUE, Experimental |-> FALSE]

ConfigAttrs == {"BaseUrl", "ClientID", "ClientSecret", "Experimental"}

SchemaAccepts(c) == \A a \in ConfigAttrs : SchemaRequired[a] => ~IsNull(c[a])

(***************************************************************************)
(* sailpointProvider.Configure, in the order of its statements.            *)
(***************************************************************************)
UnknownDiagsFirstOnly(c) ==
    IF IsUnknown(c.BaseUrl)
    THEN <<AttributeError("base_url", "Unknown SailPoint API Base URL")>>
    ELSE IF IsUnknown(c.ClientID)
    THEN <<AttributeError("client_id", "Unknown SailPoint PAT client_id")>>
    ELSE IF IsUnknown(c.ClientSecret)
    THEN <<AttributeError("client_secret", "Unknown SailPoint PAT client_secret")>>
    ELSE << >>

UnknownDiags(c) ==
    (IF IsUnknown(c.BaseUrl)
       THEN <<AttributeError("base_url", "Unknown SailPoint API Base URL")>> ELSE << >>)
    \o (IF IsUnknown(c.ClientID)
          THEN <<AttributeError("client_id", "Unknown SailPoint PAT client_id")>> ELSE << >>)
    \o (IF IsUnknown(c.ClientSecret)
          THEN <<AttributeError("client_secret", "Unknown SailPoint PAT client_secret")>>
          ELSE << >>)

EffectiveEnvWins(c) ==
    [set |-> TRUE,
     baseUrl |-> IF Getenv("SAIL_BASE_URL") # "" THEN Getenv("SAIL_BASE_URL")
                 ELSE ValueString(c.BaseUrl),
     clientID |-> IF Getenv("SAIL_CLIENT_ID") # "" THEN Getenv("SAIL_CLIENT_ID")
                  ELSE ValueString(c.ClientID),
     clientSecret |-> IF Getenv("SAIL_CLIENT_SECRET") # "" THEN Getenv("SAIL_CLIENT_SECRET")
                      ELSE ValueString(c.ClientSecret),
     experimental |-> IF Getenv("SAIL_EXPERIMENTAL") = "true" THEN TRUE
                      ELSE ValueBool(c.Experimental)]

Effective(c) ==
    [set |-> TRUE,
     baseUrl |-> IF ~IsNull(c.BaseUrl) THEN ValueString(c.BaseUrl)
                 ELSE Getenv("SAIL_BASE_URL"),
     clientID |-> IF ~IsNull(c.ClientID) THEN ValueString(c.ClientID)
                  ELSE Getenv("SAIL_CLIENT_ID"),
     clientSecret |-> IF ~IsNull(c.ClientSecret) THEN ValueString(c.ClientSecret)
                      ELSE Getenv("SAIL_CLIENT_SECRET"),
     experimental |-> IF ~IsNull(c.Experimental) THEN ValueBool(c.Experimental)
                      ELSE Getenv("SAIL_EXPERIMENTAL") = "true"]

MissingDiagsFirstOnly(e) ==
    IF e.baseUrl = "" THEN <<AttributeError("base_url", "Missing SailPoint API base_url")>>
    ELSE IF e.clientID = ""
           THEN <<AttributeError("client_id", "Missing SailPoint PAT client_id")>>
    ELSE IF e.clientSecret = ""
           THEN <<AttributeError("client_secret", "Missing SailPoint PAT client_secret")>>
    ELSE << >>

MissingDiags(e) ==
    (IF e.baseUrl = ""
       THEN <<AttributeError("base_url", "Missing SailPoint API base_url")>> ELSE << >>)
    \o (IF e.clientID = ""
          THEN <<AttributeError("client_id", "Missing SailPoint PAT client_id")>> ELSE << >>)
    \o (IF e.clientSecret = ""
          THEN <<AttributeError("client_secret", "Missing SailPoint PAT client_secret")>>
          ELSE << >>)

NewAPIClientTokenURLFromEnv(e) ==
    [ptr |-> 1, BaseURL |-> e.baseUrl, ClientId |-> e.clientID,
     ClientSecret |-> e.clientSecret,
     TokenURL |-> Getenv("SAIL_BASE_URL") \o "/oauth/token",
     Experimental |-> e.experimental]

NewAPIClient(e) ==
    [ptr |-> 1, BaseURL |-> e.baseUrl, ClientId |-> e.clientID,
     ClientSecret |-> e.clientSecret, TokenURL |-> e.baseUrl \o "/oauth/token",
     Experimental |-> e.experimental]

\* The response of Configure to configuration c: the diagnostics, the locals
\* once they are computed, and the client handed to data sources and resources.
ConfigureResponse(c) ==
    IF HasError(UnknownDiags(c))
    THEN [diags |-> UnknownDiags(c), effective |-> NoEffective,
          DataSourceData |-> NilClient, ResourceData |-> NilClient]
    ELSE IF HasError(MissingDiags(Effective(c)))
    THEN [diags |-> MissingDiags(Effective(c)), effective |-> Effective(c),
          DataSourceData |-> NilClient, ResourceData |-> NilClient]
    ELSE [diags |-> << >>, effective |-> Effective(c),
          DataSourceData |-> NewAPIClient(Effective(c)),
          ResourceData |-> NewAPIClient(Effective(c))]

(***************************************************************************)
(* api_v2025.ManagedCluster as the SDK decodes it: a pointer or nullable   *)
(* field is absent (ok = FALSE) or carries a value; a nullable field of    *)
(* the key pair and the key store also records whether the response set    *)
(* it (set), so that an explicit null is set with no value.                *)
(***************************************************************************)
Some(x) == [ok |-> TRUE, v |-> x]

NoStr == [ok |-> FALSE, v |-> ""]

NoInt == [ok |-> FALSE, v |-> 0]

NoBool == [ok |-> FALSE, v |-> FALSE]

NullableUnset == [set |-> FALSE, ok |-> FALSE, v |-> ""]

NullableNull == [set |-> TRUE, ok |-> FALSE, v |-> ""]

NullableOf(x) == [set |-> TRUE, ok |-> TRUE, v |-> x]

NoKeyPair ==
    [ok |-> FALSE, PublicKey |-> NullableUnset, PublicKeyThumbprint |-> NullableUnset,
     PublicKeyCertificate |-> NullableUnset]

NoQueue == [ok |-> FALSE, Name |-> NoStr, Region |-> NoStr]

NoAttributes == [ok |-> FALSE, Queue |-> NoQueue, Keystore |-> NullableUnset]

NoRedis == [ok |-> FALSE, RedisHost |-> NoStr, RedisPort |-> NoInt]

NoEncryptionConfiguration == [ok |-> FALSE, Format |-> NoStr]

\* A cluster with every field present.
FullCluster(id) ==
    [Id |-> id,
     Name |-> Some("name-" \o id), Pod |-> Some("pod"), Org |-> Some("org"),
     Type |-> Some("idn"),
     Configuration |-> [ok |-> TRUE, v |-> {<<"clusterType", "sqsCluster">>}],
     KeyPair |-> [ok |-> TRUE, PublicKey |-> NullableOf("kp-key"),
                  PublicKeyThumbprint |-> NullableOf("kp-thumb"),
                  PublicKeyCertificate |-> NullableOf("kp-cert")],
     Attributes |-> [ok |-> TRUE,
                     Queue |-> [ok |-> TRUE, Name |-> Some("queue"),
                                Region |-> Some("us-east-1")],
                     Keystore |-> NullableOf("keystore")],
     Redis |-> [ok |-> TRUE, RedisHost |-> Some("redis-host"), RedisPort |-> Some(6379)],
     Description |-> Some("description"), ClientType |-> Some("CCG"),
     CcgVersion |-> "v01",
     PinnedConfig |-> Some(TRUE), Operational |-> Some(TRUE), Status |-> Some("NORMAL"),
     PublicKeyCertificate |-> Some("cert"), PublicKeyThumbprint |-> Some("thumb"),
     PublicKey |-> Some("key"), AlertKey |-> Some("alert"),
     ClientIds |-> [ok |-> TRUE, v |-> <<"1244", "1245">>],
     ServiceCount |-> Some(6), CcId |-> Some("1533"),
     CreatedAt |-> Some(1), UpdatedAt |-> Some(2),
     EncryptionConfiguration |-> [ok |-> TRUE, Format |-> Some("V3")]]

\* A cluster with only its required fields.
BareCluster(id) ==
    [Id |-> id,
     Name |-> NoStr, Pod |-> NoStr, Org |-> NoStr, Type |-> NoStr,
     Configuration |-> [ok |-> FALSE, v |-> {}],
     KeyPair |-> NoKeyPair, Attributes |-> NoAttributes, Redis |-> NoRedis,
     Description |-> NoStr, ClientType |-> NoStr, CcgVersion |-> "",
     PinnedConfig |-> NoBool, Operational |-> NoBool, Status |-> NoStr,
     PublicKeyCertificate |-> NoStr, PublicKeyThumbprint |-> NoStr,
     PublicKey |-> NoStr, AlertKey |-> NoStr,
     ClientIds |-> [ok |-> FALSE, v |-> << >>],
     ServiceCount |-> NoInt, CcId |-> NoStr,
     CreatedAt |-> NoInt, UpdatedAt |-> NoInt,
     EncryptionConfiguration |-> NoEncryptionConfiguration]

\* The clusters a tenant may hold, each under its own id.
Catalogue ==
    << FullCluster("mc1"),
       BareCluster("mc2"),
       [FullCluster("mc3") EXCEPT
           !.KeyPair = [ok |-> TRUE, PublicKey |-> NullableNull,
                        PublicKeyThumbprint |-> NullableUnset,
                        PublicKeyCertificate |-> NullableOf("kp-cert-3")],
           !.Operational = Some(FALSE),
           !.UpdatedAt = NoInt],
       [BareCluster("mc4") EXCEPT
           !.Attributes = [ok |-> TRUE, Queue |-> NoQueue, Keystore |-> NullableNull],
           !.Redis = [ok |-> TRUE, RedisHost |-> NoStr, RedisPort |-> Some(6380)],
           !.EncryptionConfiguration = [ok |-> TRUE, Format |-> NoStr],
           !.Operational = Some(TRUE),
           !.CreatedAt = Some(2)],
       [FullCluster("mc5") EXCEPT
           !.Attributes = [ok |-> TRUE,
                           Queue |-> [ok |-> TRUE, Name |-> NoStr, Region |-> Some("eu")],
                           Keystore |-> NullableUnset],
           !.Redis = [ok |-> TRUE, RedisHost |-> Some("redis-5"), RedisPort |-> NoInt],
           !.Configuration = [ok |-> TRUE, v |-> {}],
           !.ClientIds = [ok |-> TRUE, v |-> << >>],
           !.PinnedConfig = Some(FALSE)],
       [BareCluster("mc6") EXCEPT
           !.Name = Some("six"), !.Status = Some("WARNING"), !.ServiceCount = Some(1),
           !.KeyPair = [ok |-> TRUE, PublicKey |-> NullableOf("kp-key-6"),
                        PublicKeyThumbprint |-> NullableNull,
                        PublicKeyCertificate |-> NullableUnset]],
       [FullCluster("mc7") EXCEPT
           !.KeyPair = NoKeyPair, !.Attributes = NoAttributes, !.Redis = NoRedis,
           !.EncryptionConfiguration = NoEncryptionConfiguration,
           !.Operational = NoBool] >>

\* time.Time.String() of the two instants the catalogue uses.
TimeString(t) ==
    IF t = 1 THEN "2024-01-01 00:00:00 +0000 UTC" ELSE "2024-06-30 12:30:00 +0000 UTC"

(***************************************************************************)
(* The SDK's getters and the framework's value constructors that the two   *)
(* mappings use.                                                           *)
(***************************************************************************)
GetStr(o) == IF o.ok THEN o.v ELSE ""

GetInt(o) == IF o.ok THEN o.v ELSE 0

GetBool(o) == IF o.ok THEN o.v ELSE FALSE

\* (*T).GetXOk() of a nullable field of a struct held by pointer: nil-safe.
GetNullableOk(owner, field) ==
    IF ~owner.ok THEN [ptr |-> NoStr, isSet |-> FALSE]
    ELSE [ptr |-> [ok |-> owner[field].ok, v |-> owner[field].v], isSet |-> owner[field].set]

GetAttributes(c) == IF c.Attributes.ok THEN c.Attributes ELSE NoAttributes

GetRedis(c) == IF c.Redis.ok THEN c.Redis ELSE NoRedis

GetEncryptionConfiguration(c) ==
    IF c.EncryptionConfiguration.ok THEN c.EncryptionConfiguration
    ELSE NoEncryptionConfiguration

QueueGetName(q) == IF q.ok /\ q.Name.ok THEN q.Name.v ELSE ""

QueueGetRegion(q) == IF q.ok /\ q.Region.ok THEN q.Region.v ELSE ""

StringPointerValue(p) == IF p.ok THEN StringValue(p.v) ELSE StringNull

Int32Null == [k |-> "null", v |-> 0]

Int32Value(n) == [k |-> "known", v |-> n]

Int32PointerValue(p) == IF p.ok THEN Int32Value(p.v) ELSE Int32Null

\* types.MapValueFrom of a *map[string]string: a nil pointer is a null map.
MapValueFrom(m) == IF m.ok THEN [k |-> "known", v |-> m.v] ELSE [k |-> "null", v |-> {}]

\* types.ListValueFrom of a []string: a nil slice is a null list.
ListValueFrom(l) == IF l.ok THEN [k |-> "known", v |-> l.v] ELSE [k |-> "null", v |-> << >>]

\* createdAt / updatedAt: the empty string unless the date is present.
DateString(d) == IF d.ok THEN TimeString(d.v) ELSE ""

extractNullableStringInverted(str, ok) == IF ok THEN NoStr ELSE str

extractNullableString(str, ok) == IF ok THEN str ELSE NoStr

(***************************************************************************)
(* parseManagedClusterData: the listing's mapping of one API cluster.      *)
(***************************************************************************)
parseManagedClusterData(cluster) ==
    LET configuration == MapValueFrom(cluster.Configuration)
        clientIds == ListValueFrom(cluster.ClientIds)
        createdAt == DateString(cluster.CreatedAt)
        updatedAt == DateString(cluster.UpdatedAt)
        pk == GetNullableOk(cluster.KeyPair, "PublicKey")
        pkt == GetNullableOk(cluster.KeyPair, "PublicKeyThumbprint")
        pkc == GetNullableOk(cluster.KeyPair, "PublicKeyCertificate")
        ks == GetNullableOk(cluster.Attributes, "Keystore")
        keyPairObject ==
            [public_key |-> StringPointerValue(extractNullableString(pk.ptr, pk.isSet)),
             public_key_thumbprint |->
                 StringPointerValue(extractNullableString(pkt.ptr, pkt.isSet)),
             public_key_certificate |->
                 StringPointerValue(extractNullableString(pkc.ptr, pkc.isSet))]
        attributesObject ==
            [queue |-> [name |-> StringValue(QueueGetName(GetAttributes(cluster).Queue)),
                        region |-> StringValue(QueueGetRegion(GetAttributes(cluster).Queue))],
             key_store |-> StringPointerValue(extractNullableString(ks.ptr, ks.isSet))]
        redisObject ==
            [redis_host |-> StringPointerValue(GetRedis(cluster).RedisHost),
             redis_port |-> Int32PointerValue(GetRedis(cluster).RedisPort)]
        encryptionConfigObject ==
            [format |-> StringPointerValue(GetEncryptionConfiguration(cluster).Format)]
    IN  [id |-> StringValue(cluster.Id),
         name |-> StringValue(GetStr(cluster.Name)),
         pod |-> StringValue(GetStr(cluster.Pod)),
         org |-> StringValue(GetStr(cluster.Org)),
         type |-> StringValue(GetStr(cluster.Type)),
         description |-> StringValue(GetStr(cluster.Description)),
         client_type |-> StringValue(GetStr(cluster.ClientType)),
         ccg_version |-> StringValue(cluster.CcgVersion),
         pinned_config |-> BoolValue(GetBool(cluster.PinnedConfig)),
         operational |-> BoolValue(GetBool(cluster.Operational)),
         status |-> StringValue(GetStr(cluster.Status)),
         public_key_certificate |-> StringValue(GetStr(cluster.PublicKeyCertificate)),
         public_key_thumbprint |-> StringValue(GetStr(cluster.PublicKeyThumbprint)),
         public_key |-> StringValue(GetStr(cluster.PublicKey)),
         alert_key |-> StringValue(GetStr(cluster.AlertKey)),
         client_ids |-> clientIds,
         service_count |-> Int32Value(GetInt(cluster.ServiceCount)),
         cc_id |-> StringValue(GetStr(cluster.CcId)),
         created_at |-> StringPointerValue(Some(createdAt)),
         updated_at |-> StringPointerValue(Some(updatedAt)),
         configuration |-> configuration,
         key_pair |-> keyPairObject,
         attributes |-> attributesObject,
         redis |-> redisObject,
         encryption_configuration |-> encryptionConfigObject]

(***************************************************************************)
(* managedClusterDataSource.Read's own mapping of the API cluster into the *)
(* state it read from the configuration (whose id it keeps).               *)
(***************************************************************************)
ReadClusterStateStatusFromName(state, cluster) ==
    [parseManagedClusterData(cluster) EXCEPT
        !.id = state.id, !.status = StringValue(GetStr(cluster.Name))]

ReadClusterState(state, cluster) ==
    LET configuration == MapValueFrom(cluster.Configuration)
        clientIds == ListValueFrom(cluster.ClientIds)
        createdAt == DateString(cluster.CreatedAt)
        updatedAt == DateString(cluster.UpdatedAt)
        pk == GetNullableOk(cluster.KeyPair, "PublicKey")
        pkt == GetNullableOk(cluster.KeyPair, "PublicKeyThumbprint")
        pkc == GetNullableOk(cluster.KeyPair, "PublicKeyCertificate")
        ks == GetNullableOk(cluster.Attributes, "Keystore")
    IN  [state EXCEPT
            !.key_pair =
                [public_key |->
                     StringPointerValue(extractNullableString(pk.ptr, pk.isSet)),
                 public_key_thumbprint |->
                     StringPointerValue(extractNullableString(pkt.ptr, pkt.isSet)),
                 public_key_certificate |->
                     StringPointerValue(extractNullableString(pkc.ptr, pkc.isSet))],
            !.attributes =
                [queue |->
                     [name |-> StringValue(QueueGetName(GetAttributes(cluster).Queue)),
                      region |-> StringValue(QueueGetRegion(GetAttributes(cluster).Queue))],
                 key_store |-> StringPointerValue(extractNullableString(ks.ptr, ks.isSet))],
            !.redis =
                [redis_host |-> StringPointerValue(GetRedis(cluster).RedisHost),
                 redis_port |-> Int32PointerValue(GetRedis(cluster).RedisPort)],
            !.encryption_configuration =
                [format |-> StringPointerValue(GetEncryptionConfiguration(cluster).Format)],
            !.name = StringValue(GetStr(cluster.Name)),
            !.pod = StringValue(GetStr(cluster.Pod)),
            !.org = StringValue(GetStr(cluster.Org)),
            !.type = StringValue(GetStr(cluster.Type)),
            !.configuration = configuration,
            !.description = StringValue(GetStr(cluster.Description)),
            !.client_type = StringValue(GetStr(cluster.ClientType)),
            !.ccg_version = StringValue(cluster.CcgVersion),
            !.pinned_config = BoolValue(GetBool(cluster.PinnedConfig)),
            !.operational = BoolValue(GetBool(cluster.Operational)),
            !.status = StringValue(GetStr(cluster.Status)),
            !.public_key_certificate = StringValue(GetStr(cluster.PublicKeyCertificate)),
            !.public_key_thumbprint = StringValue(GetStr(cluster.PublicKeyThumbprint)),
            !.public_key = StringValue(GetStr(cluster.PublicKey)),
            !.alert_key = StringValue(GetStr(cluster.AlertKey)),
            !.client_ids = clientIds,
            !.service_count = Int32Value(GetInt(cluster.ServiceCount)),
            !.cc_id = StringValue(GetStr(cluster.CcId)),
            !.created_at = StringPointerValue(Some(createdAt)),
            !.updated_at = StringPointerValue(Some(updatedAt))]

\* managedClusterDataSourceModel as req.Config.Get fills it: the computed
\* attributes are null in the configuration.
ConfigState(id) ==
    [id |-> id,
     name |-> StringNull, pod |-> StringNull, org |-> StringNull, type |-> StringNull,
     description |-> StringNull, client_type |-> StringNull, ccg_version |-> StringNull,
     pinned_config |-> BoolNull, operational |-> BoolNull, status |-> StringNull,
     public_key_certificate |-> StringNull, public_key_thumbprint |-> StringNull,
     public_key |-> StringNull, alert_key |-> StringNull,
     client_ids |-> [k |-> "null", v |-> << >>],
     service_count |-> Int32Null, cc_id |-> StringNull,
     created_at |-> StringNull, updated_at |-> StringNull,
     configuration |-> [k |-> "null", v |-> {}],
     key_pair |-> [public_key |-> StringNull, public_key_thumbprint |-> StringNull,
                   public_key_certificate |-> StringNull],
     attributes |-> [queue |-> [name |-> StringNull, region |-> StringNull],
                     key_store |-> StringNull],
     redis |-> [redis_host |-> StringNull, redis_port |-> Int32Null],
     encryption_configuration |-> [format |-> StringNull]]

(***************************************************************************)
(* The Managed Clusters API as the two Reads see it.  A tenant is the      *)
(* sequence of clusters the API holds; a fault is the request (counted     *)
(* from 1, 0 for none) that fails, with an HTTP error status or before any *)
(* response arrives.                                                       *)
(***************************************************************************)
PageSize == 2

PageWindow == 4

Min(a, b) == IF a < b THEN a ELSE b

\* The tenants: the catalogue's prefixes, the empty tenant among them.
Tenants == {SubSeq(Catalogue, 1, n) : n \in 0..Len(Catalogue)}

NoFault == [at |-> 0, kind |-> "none"]

\* No request fails, or the first or the second does.
Faults == {NoFault} \cup [at : 1..2, kind : {"status", "transport"}]

Request(path, filters, offset, limit) ==
    [method |-> "GET", path |-> path, filters |-> filters, offset |-> offset,
     limit |-> limit]

FilterMatches(filters, c) ==
    filters = "" \/ (filters = "operational eq true" /\ GetBool(c.Operational))

\* GET /managed-clusters?filters=..&offset=..&limit=..
GetManagedClusters(tenant, filters, offset, limit) ==
    LET Matches(c) == FilterMatches(filters, c)
        all == SelectSeq(tenant, Matches)
    IN  SubSeq(all, offset + 1, Min(offset + limit, Len(all)))

\* GET /managed-clusters/{id}
GetManagedCluster(tenant, id) ==
    LET Is(c) == c.Id = id
    IN  SelectSeq(tenant, Is)

\* sailpoint.Paginate: one request per page from offset, until a page comes
\* back short, a request fails or the offset reaches the window.
RECURSIVE Paginate(_, _, _, _, _, _)
Paginate(tenant, filters, fault, offset, results, exchange) ==
    IF ~(offset < PageWindow)
    THEN [results |-> results, err |-> "none", exchange |-> exchange]
    ELSE LET req == Request("/managed-clusters", filters, offset, PageSize)
         IN  IF fault.at = Len(exchange) + 1
             THEN [results |-> results, err |-> fault.kind,
                   exchange |-> Append(exchange, [req |-> req, status |-> fault.kind,
                                                  items |-> << >>])]
             ELSE LET page == GetManagedClusters(tenant, filters, offset, PageSize)
                      done == Append(exchange, [req |-> req, status |-> "ok",
                                                items |-> page])
                  IN  IF Len(page) < PageSize
                      THEN [results |-> results \o page, err |-> "none",
                            exchange |-> done]
                      ELSE Paginate(tenant, filters, fault, offset + PageSize,
                                    results \o page, done)

PaginateSinglePage(tenant, filters, fault) ==
    LET req == Request("/managed-clusters", filters, 0, PageSize)
        page == GetManagedClusters(tenant, filters, 0, PageSize)
    IN  IF fault.at = 1
        THEN [results |-> << >>, err |-> fault.kind,
              exchange |-> <<[req |-> req, status |-> fault.kind, items |-> << >>]>>]
        ELSE [results |-> page, err |-> "none",
              exchange |-> <<[req |-> req, status |-> "ok", items |-> page]>>]

PaginateWithDefaults(tenant, filters, fault) ==
    Paginate(tenant, filters, fault, 0, << >>, << >>)

(***************************************************************************)
(* managedClustersDataSource.Read.                                         *)
(***************************************************************************)
NilSlice == [nil |-> TRUE, elems |-> << >>]

MakeSlice == [nil |-> FALSE, elems |-> << >>]

AppendSlice(s, x) == [nil |-> FALSE, elems |-> Append(s.elems, x)]

\* resp.State.Set of a Go slice: a nil slice is a null list.
SliceValue(s) ==
    IF s.nil THEN [k |-> "null", v |-> << >>] ELSE [k |-> "known", v |-> s.elems]

RECURSIVE ParseAllFrom(_, _)
ParseAllFrom(results, acc) ==
    IF results = << >> THEN acc
    ELSE ParseAllFrom(Tail(results), AppendSlice(acc, parseManagedClusterData(Head(results))))

ParseAll(results) == ParseAllFrom(results, MakeSlice)

NoListState == [filters |-> StringNull, managed_clusters |-> [k |-> "null", v |-> << >>]]

ClustersReadResponse(filtersConfig, tenant, fault) ==
    LET filters == ValueString(filtersConfig)
        pg == PaginateWithDefaults(tenant, filters, fault)
        base == [op |-> "clusters", id |-> StringNull, filters |-> filtersConfig,
                 exchange |-> pg.exchange, diags |-> << >>, panicked |-> FALSE,
                 stateSet |-> FALSE, state |-> ConfigState(StringNull),
                 listState |-> NoListState]
    IN  IF pg.err = "transport"
        THEN \* err != nil with a nil *http.Response: res.Body panics
             [base EXCEPT !.panicked = TRUE]
        ELSE IF pg.err = "status"
        THEN [base EXCEPT
                 !.diags = <<AddError("Unable to Read Managed Clusters", "status")>>]
        ELSE [base EXCEPT
                 !.stateSet = TRUE,
                 !.listState = [filters |-> filtersConfig,
                                managed_clusters |-> SliceValue(ParseAll(pg.results))]]

(***************************************************************************)
(* managedClusterDataSource.Read.                                          *)
(***************************************************************************)
IdIsEmptyNullOnly(idConfig) == IsNull(idConfig)

\* id := state.ID.ValueString(); id == ""
IdIsEmpty(idConfig) == ValueString(idConfig) = ""

ClusterReadResponse(idConfig, tenant, fault) ==
    LET id == ValueString(idConfig)
        base == [op |-> "cluster", id |-> idConfig, filters |-> StringNull,
                 exchange |-> << >>, diags |-> << >>, panicked |-> FALSE,
                 stateSet |-> FALSE, state |-> ConfigState(idConfig),
                 listState |-> NoListState]
        req == Request("/managed-clusters/" \o id, "", 0, 0)
        found == GetManagedCluster(tenant, id)
    IN  IF IdIsEmpty(idConfig)
        THEN [base EXCEPT
                 !.diags = <<AddError("Unable to Read Managed Cluster",
                                      "ID cannot be empty")>>]
        ELSE IF fault.at = 1 /\ fault.kind = "transport"
        THEN [base EXCEPT
                 !.exchange = <<[req |-> req, status |-> "transport", items |-> << >>]>>,
                 !.panicked = TRUE]
        ELSE IF fault.at = 1 \/ found = << >>
        THEN [base EXCEPT
                 !.exchange = <<[req |-> req, status |-> "status", items |-> << >>]>>,
                 !.diags = <<AddError("Unable to Read Managed Cluster", "status")>>]
        ELSE [base EXCEPT
                 !.exchange = <<[req |-> req, status |-> "ok", items |-> <<found[1]>>]>>,
                 !.stateSet = TRUE,
                 !.state = ReadClusterState(ConfigState(idConfig), found[1])]

FiltersConfigs ==
    {StringNull, StringUnknown, StringValue(""), StringValue("operational eq true")}

IdConfigs ==
    {StringNull, StringUnknown, StringValue(""), StringValue("absent")}
    \cup {StringValue(Catalogue[i].Id) : i \in 1..Len(Catalogue)}

NoRead ==
    [op |-> "none", id |-> StringNull, filters |-> StringNull, exchange |-> << >>,
     diags |-> << >>, panicked |-> FALSE, stateSet |-> FALSE,
     state |-> ConfigState(StringNull), listState |-> NoListState]

Init ==
    /\ version \in Versions
    /\ env \in Environments
    /\ pc = "new"
    /\ typeName = ""
    /\ dataSources = << >>
    /\ resources = << >>
    /\ validated = "none"
    /\ config = NoConfig
    /\ effective = NoEffective
    /\ diags = << >>
    /\ DataSourceData = NilClient
    /\ ResourceData = NilClient
    /\ clustersClient = NilClient
    /\ clusterClient = NilClient
    /\ read = NoRead

\* The provider server asks the provider for its metadata, data sources and
\* resources, and each data source for its type name.
Serve ==
    /\ pc = "new"
    /\ pc' = "serving"
    /\ typeName' = ProviderTypeName
    /\ dataSources' = [i \in 1..Len(DataSources) |->
                          DataSourceMetadata(DataSources[i], ProviderTypeName)]
    /\ resources' = Resources
    /\ UNCHANGED <<version, env, validated, config, effective, diags, DataSourceData,
                   ResourceData, clustersClient, clusterClient, read>>

\* Terraform validates the provider block against Schema before it configures
\* the provider.
ValidateProviderConfig ==
    /\ pc = "serving"
    /\ validated = "none"
    /\ \E c \in ProviderConfigs :
          /\ config' = c
          /\ validated' = IF SchemaAccepts(c) THEN "ok" ELSE "rejected"
          /\ pc' = IF SchemaAccepts(c) THEN "serving" ELSE "rejected"
    /\ UNCHANGED <<version, env, typeName, dataSources, resources, effective, diags,
                   DataSourceData, ResourceData, clustersClient, clusterClient, read>>

\* Configure, called with the validated block or, by a caller of the handler
\* that validated nothing, with any configuration.
Configure ==
    /\ pc = "serving"
    /\ \E c \in ProviderConfigs :
          /\ validated = "ok" => c = config
          /\ config' = c
          /\ effective' = ConfigureResponse(c).effective
          /\ diags' = ConfigureResponse(c).diags
          /\ DataSourceData' = ConfigureResponse(c).DataSourceData
          /\ ResourceData' = ConfigureResponse(c).ResourceData
    /\ pc' = "configured"
    /\ UNCHANGED <<version, env, typeName, dataSources, resources, validated,
                   clustersClient, clusterClient, read>>

\* managedClustersDataSource.Configure with req.ProviderData = DataSourceData.
ClustersConfigure ==
    /\ pc \in {"serving", "configured"}
    /\ clustersClient' = IF DataSourceData.ptr = 0 THEN clustersClient ELSE DataSourceData
    /\ UNCHANGED <<provVars, clusterClient, read>>

\* managedClusterDataSource.Configure with req.ProviderData = DataSourceData.
ClusterConfigure ==
    /\ pc \in {"serving", "configured"}
    /\ clusterClient' = IF DataSourceData.ptr = 0 THEN clusterClient ELSE DataSourceData
    /\ UNCHANGED <<provVars, clustersClient, read>>

\* managedClustersDataSource.Read of a configuration, against the API.
ClustersRead ==
    /\ clustersClient.ptr # 0
    /\ read.op = "none"
    /\ \E f \in FiltersConfigs, tenant \in Tenants, fault \in Faults :
          read' = ClustersReadResponse(f, tenant, fault)
    /\ UNCHANGED <<provVars, clustersClient, clusterClient>>

\* managedClusterDataSource.Read of a configuration, against the API.
ClusterRead ==
    /\ clusterClient.ptr # 0
    /\ read.op = "none"
    /\ \E id \in IdConfigs, tenant \in Tenants, fault \in Faults :
          read' = ClusterReadResponse(id, tenant, fault)
    /\ UNCHANGED <<provVars, clustersClient, clusterClient>>

\* The provider's life up to the configuration of its data sources.
Next ==
    \/ Serve
    \/ ValidateProviderConfig
    \/ Configure
    \/ ClustersConfigure
    \/ ClusterConfigure

Spec == Init /\ [][Next]_vars

\* The same, followed by one Read of either data source, in the environment
\* that sets every variable.
ReadInit ==
    /\ Init
    /\ version = "dev"
    /\ env = [SAIL_BASE_URL |-> "https://env.api", SAIL_CLIENT_ID |-> "env-id",
              SAIL_CLIENT_SECRET |-> "env-secret", SAIL_EXPERIMENTAL |-> "true"]

ReadNext ==
    \/ Next
    \/ ClustersRead
    \/ ClusterRead

ReadSpec == ReadInit /\ [][ReadNext]_vars

(***************************************************************************)
(* Properties.                                                             *)
(***************************************************************************)
Unknowns(c) ==
    {a \in {"BaseUrl", "ClientID", "ClientSecret"} : IsUnknown(c[a])}

PathOf(a) ==
    IF a = "BaseUrl" THEN "base_url" ELSE IF a = "ClientID" THEN "client_id"
    ELSE "client_secret"

Count(ds, attr) == Cardinality({i \in 1..Len(ds) : ds[i].path = attr})

EmptyEffective(e) ==
    {a \in {"base_url", "client_id", "client_secret"} :
        (a = "base_url" /\ e.baseUrl = "") \/ (a = "client_id" /\ e.clientID = "")
        \/ (a = "client_secret" /\ e.clientSecret = "")}

MissingSummary(attr) ==
    IF attr = "base_url" THEN "Missing SailPoint API base_url"
    ELSE IF attr = "client_id" THEN "Missing SailPoint PAT client_id"
    ELSE "Missing SailPoint PAT client_secret"

\* C1: once the provider is served, under every version, it has registered
\* exactly the data sources sailpoint_managed_clusters and
\* sailpoint_managed_cluster, and no resource.
C1_TwoDataSourcesNoResources ==
    pc # "new" =>
        /\ dataSources = <<"sailpoint_managed_clusters", "sailpoint_managed_cluster">>
        /\ resources = << >>
        /\ typeName = "sailpoint"

C1_Witness ==
    pc # "new" /\ version = "test" /\ Len(dataSources) = 2 /\ Len(resources) = 0

\* C2: once Configure has computed its effective values, each of them is the
\* configuration's value when that is known (an empty string and false
\* included), the environment's when the configuration is null (experimental:
\* whether SAIL_EXPERIMENTAL is "true"); an unknown experimental counts as
\* false and the environment is not consulted for it.
C2_ConfigOverEnvironment ==
    effective.set =>
        /\ config.BaseUrl.k = "known" => effective.baseUrl = config.BaseUrl.v
        /\ config.ClientID.k = "known" => effective.clientID = config.ClientID.v
        /\ config.ClientSecret.k = "known" => effective.clientSecret = config.ClientSecret.v
        /\ config.Experimental.k = "known" => effective.experimental = config.Experimental.v
        /\ config.BaseUrl.k = "null" => effective.baseUrl = env.SAIL_BASE_URL
        /\ config.ClientID.k = "null" => effective.clientID = env.SAIL_CLIENT_ID
        /\ config.ClientSecret.k = "null" => effective.clientSecret = env.SAIL_CLIENT_SECRET
        /\ config.Experimental.k = "null" =>
               effective.experimental = (env.SAIL_EXPERIMENTAL = "true")
        /\ config.Experimental.k = "unknown" => effective.experimental = FALSE

C2_Witness ==
    /\ effective.set
    /\ config.BaseUrl = StringValue("") /\ env.SAIL_BASE_URL # ""
    /\ effective.baseUrl = ""
    /\ config.Experimental = BoolValue(FALSE) /\ env.SAIL_EXPERIMENTAL = "true"
    /\ ~effective.experimental
    /\ config.ClientID = StringNull /\ effective.clientID = "env-id"

\* C3: when Configure has returned on a configuration with an unknown
\* base_url, client_id or client_secret, its diagnostics are exactly one
\* "Unknown ..." attribute error per unknown attribute, the effective values
\* were never computed and neither DataSourceData nor ResourceData is set.
C3_UnknownsAllReported ==
    (pc = "configured" /\ Unknowns(config) # {}) =>
        /\ Len(diags) = Cardinality(Unknowns(config))
        /\ \A a \in Unknowns(config) : Count(diags, PathOf(a)) = 1
        /\ \A i \in 1..Len(diags) :
              /\ diags[i].severity = "error"
              /\ diags[i].summary \in {"Unknown SailPoint API Base URL",
                                       "Unknown SailPoint PAT client_id",
                                       "Unknown SailPoint PAT client_secret"}
        /\ ~effective.set
        /\ DataSourceData = NilClient
        /\ ResourceData = NilClient

C3_Witness ==
    /\ pc = "configured"
    /\ Unknowns(config) = {"BaseUrl", "ClientSecret"}
    /\ Len(diags) = 2
    /\ DataSourceData.ptr = 0

\* C4: when Configure has returned with an empty effective base_url,
\* client_id or client_secret, its diagnostics are exactly one "Missing ..."
\* attribute error per empty value, and neither DataSourceData nor
\* ResourceData is set.
C4_MissingAllReported ==
    (pc = "configured" /\ effective.set /\ EmptyEffective(effective) # {}) =>
        /\ Len(diags) = Cardinality(EmptyEffective(effective))
        /\ \A a \in EmptyEffective(effective) :
              \E i \in 1..Len(diags) :
                 diags[i] = [severity |-> "error", path |-> a,
                             summary |-> MissingSummary(a)]
        /\ DataSourceData = NilClient
        /\ ResourceData = NilClient

C4_Witness ==
    /\ pc = "configured"
    /\ effective.set
    /\ EmptyEffective(effective) = {"base_url", "client_secret"}
    /\ Len(diags) = 2
    /\ config.ClientSecret = StringNull

\* C5: a provider block that sets none of base_url, client_id and
\* client_secret, validated while SAIL_BASE_URL, SAIL_CLIENT_ID and
\* SAIL_CLIENT_SECRET are all non-empty, is accepted.
C5_EnvironmentAloneSuffices ==
    ( /\ validated # "none"
      /\ IsNull(config.BaseUrl) /\ IsNull(config.ClientID) /\ IsNull(config.ClientSecret)
      /\ env.SAIL_BASE_URL # "" /\ env.SAIL_CLIENT_ID # "" /\ env.SAIL_CLIENT_SECRET # "" )
    => (validated = "ok" /\ pc # "rejected")

\* C6: when Configure has returned, a client is available exactly when there
\* is no error diagnostic; it is then one instance, stored in both
\* DataSourceData and ResourceData, built from the effective values with the
\* token URL the effective base_url followed by "/oauth/token"; before
\* Configure and on any error both are unset.
C6_ClientIffNoError ==
    /\ pc # "configured" => (DataSourceData = NilClient /\ ResourceData = NilClient)
    /\ pc = "configured" =>
          /\ (DataSourceData.ptr # 0) <=> ~HasError(diags)
          /\ DataSourceData = ResourceData
          /\ HasError(diags) => DataSourceData = NilClient
          /\ ~HasError(diags) =>
                /\ effective.set
                /\ DataSourceData.BaseURL = effective.baseUrl
                /\ DataSourceData.ClientId = effective.clientID
                /\ DataSourceData.ClientSecret = effective.clientSecret
                /\ DataSourceData.TokenURL = effective.baseUrl \o "/oauth/token"

C6_Witness ==
    /\ pc = "configured"
    /\ diags = << >>
    /\ DataSourceData.ptr = 1
    /\ ResourceData.ptr = 1
    /\ DataSourceData.TokenURL = "https://cfg.api/oauth/token"
    /\ env.SAIL_BASE_URL = "https://env.api"

\* Whether the Read recorded reached the API: every listing Read does, a
\* single-cluster Read does once its id is not empty.
CallsAPI ==
    read.op = "clusters" \/ (read.op = "cluster" /\ ValueString(read.id) # "")

RECURSIVE Items(_)
Items(exchange) ==
    IF exchange = << >> THEN << >> ELSE Head(exchange).items \o Items(Tail(exchange))

\* C7 as stated: a Read that reaches the API issues exactly one request.
C7_ExactlyOneRequest == CallsAPI => Len(read.exchange) = 1

\* C7, amended: a single-cluster Read issues one GET, or none when its id is
\* empty; a listing Read issues one GET per page, at offsets 0, PageSize, ...:
\* at least one, and a further one after every full page until a page comes
\* back short, a request fails or the offset reaches the window; every
\* request is a GET.
C7_OneRequestPerPage ==
    /\ \A i \in 1..Len(read.exchange) : read.exchange[i].req.method = "GET"
    /\ read.op = "none" => read.exchange = << >>
    /\ read.op = "cluster" =>
          Len(read.exchange) = IF ValueString(read.id) = "" THEN 0 ELSE 1
    /\ read.op = "clusters" =>
          LET n == Len(read.exchange)
          IN  /\ n >= 1
              /\ \A i \in 1..n :
                    /\ read.exchange[i].req.path = "/managed-clusters"
                    /\ read.exchange[i].req.offset = (i - 1) * PageSize
                    /\ read.exchange[i].req.limit = PageSize
                    /\ read.exchange[i].req.offset < PageWindow
              /\ \A i \in 1..(n - 1) :
                    /\ read.exchange[i].status = "ok"
                    /\ Len(read.exchange[i].items) = PageSize
              /\ \/ read.exchange[n].status # "ok"
                 \/ Len(read.exchange[n].items) < PageSize
                 \/ n * PageSize >= PageWindow

C7_Witness ==
    /\ read.op = "clusters"
    /\ read.stateSet
    /\ Len(read.exchange) = 2
    /\ Len(read.exchange[1].items) = PageSize
    /\ read.exchange[2].req.offset = PageSize

\* C8: a single-cluster Read whose id is null, unknown or the empty string
\* answers with the one error "Unable to Read Managed Cluster" / "ID cannot be
\* empty", issues no request and sets no state.
C8_EmptyIdRejected ==
    (read.op = "cluster" /\ (IsNull(read.id) \/ IsUnknown(read.id) \/ read.id.v = "")) =>
        /\ read.diags = <<[severity |-> "error", summary |-> "Unable to Read Managed Cluster",
                           path |-> "ID cannot be empty"]>>
        /\ read.exchange = << >>
        /\ ~read.stateSet
        /\ ~read.panicked

C8_Witness ==
    /\ read.op = "cluster"
    /\ IsUnknown(read.id)
    /\ Len(read.diags) = 1
    /\ read.exchange = << >>

\* C9: after a successful listing Read, managed_clusters is a known list with
\* one element per cluster of the pages the API returned, in their order
\* (empty, not null, when there are none); filters in state is the configured
\* filters, and every request carried its string value ("" for null).
C9_ListingMirrorsPages ==
    (read.op = "clusters" /\ read.stateSet) =>
        LET results == Items(read.exchange)
            list == read.listState.managed_clusters
        IN  /\ list.k = "known"
            /\ Len(list.v) = Len(results)
            /\ \A i \in 1..Len(results) :
                  /\ list.v[i].id = StringValue(results[i].Id)
                  /\ list.v[i] = parseManagedClusterData(results[i])
            /\ read.listState.filters = read.filters
            /\ \A i \in 1..Len(read.exchange) :
                  read.exchange[i].req.filters =
                      (IF read.filters.k = "known" THEN read.filters.v ELSE "")
            /\ read.diags = << >>

C9_Witness ==
    /\ read.op = "clusters"
    /\ read.stateSet
    /\ read.filters = StringNull
    /\ Len(read.exchange) = 2
    /\ Len(read.listState.managed_clusters.v) = 3
    /\ read.listState.managed_clusters.v[3].id = StringValue("mc3")

\* C10: whenever the single-cluster Read gets a cluster from the API it sets
\* its state, without diagnostics, to exactly what parseManagedClusterData
\* makes of that cluster, attribute by attribute.
C10_ReadAgreesWithParse ==
    (read.op = "cluster" /\ read.exchange # << >> /\ read.exchange[1].status = "ok") =>
        LET cluster == read.exchange[1].items[1]
            parsed == parseManagedClusterData(cluster)
        IN  /\ read.stateSet
            /\ read.diags = << >>
            /\ \A a \in DOMAIN parsed : read.state[a] = parsed[a]
            /\ DOMAIN read.state = DOMAIN parsed

C10_Witness ==
    /\ read.op = "cluster"
    /\ read.stateSet
    /\ read.id = StringValue("mc3")
    /\ read.state.key_pair.public_key = StringNull
    /\ read.state.key_pair.public_key_certificate = StringValue("kp-cert-3")
    /\ read.state.updated_at = StringValue("")

\* The clusters the recorded Read mapped, each with the state it was mapped
\* to: the one of a single-cluster Read, the elements of a listing.
Mapped ==
    IF read.op = "cluster" /\ read.stateSet
    THEN {[cluster |-> read.exchange[1].items[1], state |-> read.state]}
    ELSE IF read.op = "clusters" /\ read.stateSet
    THEN {[cluster |-> Items(read.exchange)[i],
           state |-> read.listState.managed_clusters.v[i]] :
             i \in 1..Len(Items(read.exchange))}
    ELSE {}

\* The four nullable fields: the API object that owns each, the field's name
\* there, and its value in state.
NullableFields(m) ==
    {[owner |-> m.cluster.KeyPair, field |-> "PublicKey",
      state |-> m.state.key_pair.public_key],
     [owner |-> m.cluster.KeyPair, field |-> "PublicKeyThumbprint",
      state |-> m.state.key_pair.public_key_thumbprint],
     [owner |-> m.cluster.KeyPair, field |-> "PublicKeyCertificate",
      state |-> m.state.key_pair.public_key_certificate],
     [owner |-> m.cluster.Attributes, field |-> "Keystore",
      state |-> m.state.attributes.key_store]}

\* The response carries the field: its object is present and the field is set
\* in it, be it to a string or to an explicit null.
Carried(f) == f.owner.ok /\ f.owner[f.field].set

\* The response carries a string for the field.
CarriesString(f) == Carried(f) /\ f.owner[f.field].ok

\* C11 as stated: in both data sources each of the four nullable fields is
\* null in state exactly when the response does not carry the field, and is
\* the API's string otherwise.
C11_NullIffNotCarried ==
    \A m \in Mapped : \A f \in NullableFields(m) :
        /\ IsNull(f.state) <=> ~Carried(f)
        /\ Carried(f) => f.state = StringValue(f.owner[f.field].v)

\* C11, amended: in both data sources each of the four nullable fields is null
\* in state exactly when the response carries no string for it (the field or
\* its whole object is absent, or the field is an explicit null) and is that
\* string otherwise; redis_host, redis_port and format are null exactly when
\* the API pointer is nil or its object absent, and the API value otherwise;
\* extractNullableString(s, ok) is s when ok and nil when not.
C11_NullIffNoString ==
    /\ \A m \in Mapped :
          /\ \A f \in NullableFields(m) :
                /\ IsNull(f.state) <=> ~CarriesString(f)
                /\ CarriesString(f) => f.state = StringValue(f.owner[f.field].v)
          /\ LET c == m.cluster
                 st == m.state
             IN  /\ IsNull(st.redis.redis_host) <=> ~(c.Redis.ok /\ c.Redis.RedisHost.ok)
                 /\ (c.Redis.ok /\ c.Redis.RedisHost.ok) =>
                        st.redis.redis_host = StringValue(c.Redis.RedisHost.v)
                 /\ IsNull(st.redis.redis_port) <=> ~(c.Redis.ok /\ c.Redis.RedisPort.ok)
                 /\ (c.Redis.ok /\ c.Redis.RedisPort.ok) =>
                        st.redis.redis_port = [k |-> "known", v |-> c.Redis.RedisPort.v]
                 /\ IsNull(st.encryption_configuration.format) <=>
                        ~(c.EncryptionConfiguration.ok /\ c.EncryptionConfiguration.Format.ok)
                 /\ (c.EncryptionConfiguration.ok /\ c.EncryptionConfiguration.Format.ok) =>
                        st.encryption_configuration.format =
                            StringValue(c.EncryptionConfiguration.Format.v)
    /\ \A s \in {NoStr, Some(""), Some("kp-key")} :
          /\ extractNullableString(s, TRUE) = s
          /\ extractNullableString(s, FALSE) = NoStr

C11_Witness ==
    /\ read.op = "clusters"
    /\ read.stateSet
    /\ Len(read.listState.managed_clusters.v) = 4
    /\ read.listState.managed_clusters.v[1].key_pair.public_key = StringValue("kp-key")
    /\ read.listState.managed_clusters.v[2].key_pair.public_key = StringNull
    /\ read.exchange[2].items[1].KeyPair.PublicKey = NullableNull
    /\ read.listState.managed_clusters.v[3].key_pair.public_key = StringNull
    /\ read.listState.managed_clusters.v[4].attributes.key_store = StringNull
    /\ read.listState.managed_clusters.v[4].redis.redis_host = StringNull
    /\ read.listState.managed_clusters.v[4].redis.redis_port = Int32Value(6380)
    /\ read.listState.managed_clusters.v[4].encryption_configuration.format = StringNull

=============================================================================
